---- MODULE Spec2Model ----
(***************************************************************************)
(* Model of the streamdeck controller: the device session (one worker      *)
(* thread behind an mpsc command channel), the dispatch loop main_loop,    *)
(* the type-keyed shared-state registry and the OBS background session.    *)
(***************************************************************************)
EXTENDS Integers, Sequences, FiniteSets, TLC

\* ------------------------------------------------------------------ bounds
NumKeys == 2
MaxQueue == 2
MaxReports == 1
MaxHandlerSends == 1
NumValues == 2
NumTasks == 2
MaxConnectFails == 2
MaxId == 11
MaxBlockLines == 2
MaxByte == 1
MaxLines == 2

\* ------------------------------------------------------- program constants
POLLING_RATE == 500
OBS_CHANNEL_CAPACITY == 32
OBS_CLIENT_RECONNECT == "None"

VARIABLES
    \* dispatch loop (core.rs main_loop)
    pc, curKey, hsends, sent, inited, buttons,
    \* result of the handler future just matched by the loop; cause of a failed connect
    hres, connErr,
    \* per-cycle observations of the dispatch loop
    snap, prevSnap, cycleClicks, slept,
    \* command channel and device session (core.rs StreamDeck)
    chan, inDeviceOp,
    worker, cur, opResult, transport,
    reply,
    \* the physical device
    phys, reports, display,
    \* background event thread holding a Key clone (audio.rs DeafenButton::init)
    bg,
    \* shared-state registry (core.rs TypeMap) and what was inserted / read
    typemap, tmHist, tmGot,
    \* registry lock and the callers of OBSClient::new (obs.rs)
    rwReaders, rwWriter, npc, overlap,
    \* OBS background sessions and their request channels
    obsReconnect, sess, squeue, sfails, sconn,
    \* one caller of the OBSClient request methods (a handler's on_click)
    cpc, ckind, cclient, oneshot, cres, cAfterTerm,
    \* pactl decoders (main.rs mod pactl): the bytes read and the value returned
    decIn, decOut,
    \* Color conversions (core.rs impl From for Color): the values converted and the Colors returned
    colIn, colOut,
    \* event thread of DeafenButton::init (audio.rs): the lines pactl subscribe
    \* prints, how many were read, where the thread is, what ended it, and how
    \* many events it acted on
    evLines, evPos, evPc, evCause, evActs

mainVars == <<pc, curKey, hsends, sent, inited, buttons>>
cycleVars == <<snap, prevSnap, cycleClicks, slept>>
sendVars == <<chan, inDeviceOp>>
workerVars == <<worker, cur, opResult, transport>>
devVars == <<phys, reports, display>>

resVars == <<hres, connErr>>

deckVars == <<mainVars, resVars, cycleVars, sendVars, workerVars, reply, devVars, bg>>
regVars == <<typemap, tmHist, tmGot>>
lockVars == <<rwReaders, rwWriter, npc, overlap>>
sessVars == <<obsReconnect, sess, squeue, sfails, sconn>>
callerVars == <<cpc, ckind, cclient, oneshot, cres, cAfterTerm>>
obsVars == <<lockVars, sessVars, callerVars>>

decVars == <<decIn, decOut>>
colVars == <<colIn, colOut>>
evVars == <<evLines, evPos, evPc, evCause, evActs>>

vars == <<deckVars, regVars, obsVars, decVars, colVars, evVars>>

\* ---------------------------------------------------------------- helpers
Keys == 0..(NumKeys - 1)
NoKey == 0 - 1
AllReleased == [k \in Keys |-> 0]
NoClicks == [k \in Keys |-> 0]
Pressed(keys) == {k \in Keys : keys[k] = 1}
NoMsg == [kind |-> "None", key |-> NoKey, ahead |-> 0, from |-> "none"]

\* reply channel of one ReadButtons request: mpsc::channel() at core.rs:176
ReplyIdle == [tag |-> "Idle", keys |-> AllReleased]
ReplyPending == [tag |-> "Pending", keys |-> AllReleased]
ReplyDropped == [tag |-> "Dropped", keys |-> AllReleased]
ReplyNone == [tag |-> "None", keys |-> AllReleased]
ReplySome(keys) == [tag |-> "Some", keys |-> keys]

\* snapshot seen by the loop in the current cycle
SnapPending == [tag |-> "Pending", keys |-> AllReleased]
SnapNoData == [tag |-> "NoData", keys |-> AllReleased]
SnapKeys(keys) == [tag |-> "Keys", keys |-> keys]

WorkerAlive == worker \in {"idle", "busy"}
BusyCount == IF worker = "busy" THEN 1 ELSE 0

\* a command finished executing: every queued command has one predecessor less
OneExecuted(q) == [i \in 1..Len(q) |-> [q[i] EXCEPT !.ahead = @ - 1]]

\* registry keys (TypeId) and the absent value (Option::None)
Types == {"OBSClient", "A", "B"}
Values == 1..NumValues
Absent == 0
Tasks == 1..NumTasks
Sessions == 1..NumTasks
NoTask == 0
RequestKinds == {"RecordingStatus", "RecordingStart", "RecordingStop", "SaveReplayBuffer"}

\* variant: the highest-index pressed key wins
FindPressedLast(keys) ==
    IF Pressed(keys) = {} THEN NoKey
    ELSE CHOOSE k \in Pressed(keys) : \A j \in Pressed(keys) : k >= j

\* variant: the index found is off by one
FindPressedOffByOne(keys) ==
    IF Pressed(keys) = {} THEN NoKey
    ELSE 1 + (CHOOSE k \in Pressed(keys) : \A j \in Pressed(keys) : k <= j)

\* variant: a snapshot without a pressed key falls back to key 0
FindPressedOrZero(keys) ==
    IF Pressed(keys) = {} THEN 0
    ELSE CHOOSE k \in Pressed(keys) : \A j \in Pressed(keys) : k <= j

\* keys.iter().enumerate().find(|&(_, &x)| x == 1)
FindPressed(keys) ==
    IF Pressed(keys) = {} THEN NoKey
    ELSE CHOOSE k \in Pressed(keys) : \A j \in Pressed(keys) : k <= j

\* variant: the newest queued message is taken first
ChanRecvNewest(q) == [msg |-> q[Len(q)], rest |-> SubSeq(q, 1, Len(q) - 1)]

\* rx.recv() on the command channel: the oldest queued message
ChanRecv(q) == [msg |-> Head(q), rest |-> Tail(q)]

\* the call has no message to execute or to report
NoSend == [res |-> "none", accepted |-> FALSE]

\* variant: the error of a closed channel is returned to the caller
SendResultPropagated(accepted) == IF accepted THEN "Ok" ELSE "Err"

\* StreamDeck::send: `let _ = self.tx.send(msg); Ok(())`, whether the channel
\* accepted the message or not
SendResult(accepted) == "Ok"

\* variant: the caller's clone writes to the transport itself
StreamDeckSendDirect(who, kind, key) ==
    /\ Len(chan) < MaxQueue
    /\ UNCHANGED chan
    /\ inDeviceOp' = inDeviceOp \cup {who}

\* StreamDeck::send: enqueue on the command channel, ignore a closed channel;
\* ahead counts the commands enqueued earlier that have not finished executing
StreamDeckSend(who, kind, key) ==
    /\ Len(chan) < MaxQueue
    /\ IF WorkerAlive
       THEN chan' = Append(chan, [kind |-> kind, key |-> key,
                                  ahead |-> Len(chan) + BusyCount, from |-> who])
       ELSE UNCHANGED chan
    /\ inDeviceOp' = inDeviceOp

\* ------------------------------------------------------------------- Init
\* TypeMap::new(): the registry starts empty
RegStart ==
    /\ typemap = {}
    /\ tmHist = [T \in Types |-> <<>>]
    /\ tmGot = [tag |-> "None", ty |-> "A", res |-> Absent, exp |-> Absent]

\* no OBSClient::new call has started, no session is spawned
ObsStart ==
    /\ rwReaders = {}
    /\ rwWriter = NoTask
    /\ npc = [t \in Tasks |-> "idle"]
    /\ overlap = FALSE
    /\ sess = [s \in Sessions |-> "unspawned"]
    /\ squeue = [s \in Sessions |-> <<>>]
    /\ sfails = [s \in Sessions |-> 0]
    /\ sconn = [s \in Sessions |-> "none"]
    /\ cpc = "init"
    /\ ckind = "SaveReplayBuffer"
    /\ cclient = Absent
    /\ oneshot = "none"
    /\ cres = "none"
    /\ cAfterTerm = FALSE

\* no bytes were read by a pactl decoder
NoInput == [tag |-> "none", kind |-> "", ty |-> "", id |-> 0, blocks |-> <<>>, bytes |-> <<>>]
NoOutput == [tag |-> "none", event |-> "None", dst |-> [ty |-> "None", id |-> 0], sinks |-> <<>>]
DecodeStart ==
    /\ decIn = NoInput
    /\ decOut = NoOutput

\* no value was converted to a Color
NoColorInput == [tag |-> "none", vals |-> <<>>]
ColorStart ==
    /\ colIn = NoColorInput
    /\ colOut = <<>>

\* the event thread is not spawned
EventStart ==
    /\ evLines = <<>>
    /\ evPos = 0
    /\ evPc = "none"
    /\ evCause = "none"
    /\ evActs = 0

DeckStart ==
    /\ pc = "connect"
    /\ hres = "none"
    /\ connErr = "none"
    /\ curKey = NoKey
    /\ hsends = 0
    /\ sent = NoSend
    /\ inited = {}
    /\ snap = SnapPending
    /\ prevSnap = AllReleased
    /\ cycleClicks = NoClicks
    /\ slept = 0
    /\ chan = <<>>
    /\ inDeviceOp = {}
    /\ worker = "none"
    /\ cur = NoMsg
    /\ opResult = "none"
    /\ transport = {}
    /\ reply = ReplyIdle
    /\ phys = AllReleased
    /\ reports = <<>>
    /\ display = [k \in Keys |-> "blank"]
    /\ bg = "none"

\* the buttons! table holds handlers for keys 0..n-1; no backoff is configured
Init ==
    /\ buttons \in {0..(n - 1) : n \in 1..NumKeys}
    /\ DeckStart
    /\ RegStart
    /\ ObsStart
    /\ obsReconnect = OBS_CLIENT_RECONNECT
    /\ DecodeStart
    /\ ColorStart
    /\ EventStart

\* -------------------------------------------------- dispatch loop main_loop
\* StreamDeck::connect succeeded: the transport moves into the spawned worker
ConnectOk ==
    /\ pc = "connect"
    /\ pc' = "init"
    /\ worker' = "idle"
    /\ transport' = {"worker"}
    /\ UNCHANGED <<curKey, hsends, sent, inited, buttons, cycleVars, sendVars,
                   cur, opResult, reply, devVars, bg>>
    /\ UNCHANGED <<resVars, regVars, obsVars, decVars, colVars, evVars>>

\* variant: the worker thread is spawned before set_blocking is tried
ConnectFailAfterSpawn ==
    /\ pc = "connect"
    /\ \E cause \in {"connect", "set_blocking"} :
        /\ connErr' = cause
        /\ worker' = IF cause = "set_blocking" THEN "idle" ELSE worker
    /\ pc' = "exited"
    /\ UNCHANGED <<curKey, hsends, sent, inited, buttons, cycleVars, sendVars,
                   cur, opResult, transport, reply, devVars, bg>>
    /\ UNCHANGED <<hres, regVars, obsVars, decVars, colVars, evVars>>

\* streamdeck::StreamDeck::connect or deck.set_blocking(false) returned an error:
\* `?` returns before thread::spawn, main_loop prints [FATAL] and calls process::exit(1)
ConnectFail ==
    /\ pc = "connect"
    /\ \E cause \in {"connect", "set_blocking"} : connErr' = cause
    /\ pc' = "exited"
    /\ UNCHANGED <<curKey, hsends, sent, inited, buttons, cycleVars, sendVars,
                   workerVars, reply, devVars, bg>>
    /\ UNCHANGED <<hres, regVars, obsVars, decVars, colVars, evVars>>

\* next element of buttons.iter_mut(): exec_init on a handler not yet initialised
InitNext ==
    /\ pc = "init"
    /\ \E k \in buttons \ inited :
        /\ curKey' = k
        /\ inited' = inited \cup {k}
    /\ hsends' = 0
    /\ sent' = NoSend
    /\ hres' = "none"
    /\ pc' = "initBody"
    /\ UNCHANGED <<buttons, cycleVars, sendVars, workerVars, reply, devVars, bg>>
    /\ UNCHANGED <<connErr, regVars, obsVars, decVars, colVars, evVars>>

\* the init loop is exhausted: enter the poll loop
InitDone ==
    /\ pc = "init"
    /\ inited = buttons
    /\ hres' = "none"
    /\ pc' = "poll"
    /\ UNCHANGED <<curKey, hsends, sent, inited, buttons, cycleVars, sendVars,
                   workerVars, reply, devVars, bg>>
    /\ UNCHANGED <<connErr, regVars, obsVars, decVars, colVars, evVars>>

\* a handler body calls key.color / key.image and gets the result of
\* StreamDeck::send
HandlerSend ==
    /\ pc \in {"initBody", "click"}
    /\ hsends < MaxHandlerSends
    /\ \E kind \in {"SetColor", "SetImage"} : StreamDeckSend("main", kind, curKey)
    /\ hsends' = hsends + 1
    /\ sent' = [res |-> SendResult(WorkerAlive), accepted |-> WorkerAlive]
    /\ UNCHANGED <<pc, curKey, inited, buttons, cycleVars, workerVars, reply, devVars, bg>>
    /\ UNCHANGED <<resVars, regVars, obsVars, decVars, colVars, evVars>>

\* variant: init reads the event lines itself, in the task of the dispatch loop
HandlerReadInline ==
    /\ pc = "initBody"
    /\ curKey = 0
    /\ bg = "none"
    /\ bg' = "running"
    /\ pc' = "readBlocked"
    /\ UNCHANGED <<curKey, hsends, sent, inited, buttons, cycleVars, sendVars, workerVars, reply, devVars>>
    /\ UNCHANGED <<resVars, regVars, obsVars, decVars, colVars, evVars>>

\* DeafenButton::init spawns the event thread with a clone of its Key; the
\* thread blocks in read_event until pactl prints a line
HandlerSpawnBg ==
    /\ pc = "initBody"
    /\ curKey = 0
    /\ bg = "none"
    /\ bg' = "running"
    /\ UNCHANGED <<mainVars, cycleVars, sendVars, workerVars, reply, devVars>>
    /\ UNCHANGED <<resVars, regVars, obsVars, decVars, colVars, evVars>>

\* variant: an Err of the handler is propagated out of the loop
HandlerReturnErrStops ==
    /\ pc \in {"initBody", "click"}
    /\ \E r \in {"Ok", "Err"} :
        /\ hres' = r
        /\ pc' = IF r = "Err" THEN "exited"
                 ELSE IF pc = "initBody" THEN "init" ELSE "poll"
    /\ hsends' = 0
    /\ sent' = NoSend
    /\ curKey' = NoKey
    /\ UNCHANGED <<inited, buttons, cycleVars, sendVars,
                   workerVars, reply, devVars, bg>>
    /\ UNCHANGED <<connErr, regVars, obsVars, decVars, colVars, evVars>>

\* the handler future completes with Ok(()) or Err(err): the match in the loop
\* does nothing on Ok and prints [ERROR] on Err, then the loop goes on; the Key
\* handle moved into the call is gone
HandlerReturn ==
    /\ pc \in {"initBody", "click"}
    /\ \E r \in {"Ok", "Err"} : hres' = r
    /\ hsends' = 0
    /\ sent' = NoSend
    /\ curKey' = NoKey
    /\ pc' = IF pc = "initBody" THEN "init" ELSE "poll"
    /\ UNCHANGED <<inited, buttons, cycleVars, sendVars,
                   workerVars, reply, devVars, bg>>
    /\ UNCHANGED <<connErr, regVars, obsVars, decVars, colVars, evVars>>

\* variant: the next read is sent while on_click is still running
PollDuringHandler ==
    /\ pc \in {"poll", "click"}
    /\ StreamDeckSend("main", "ReadButtons", NoKey)
    /\ reply' = IF WorkerAlive THEN ReplyPending ELSE ReplyDropped
    /\ prevSnap' = IF snap.tag = "Keys" THEN snap.keys ELSE prevSnap
    /\ snap' = SnapPending
    /\ cycleClicks' = NoClicks
    /\ slept' = 0
    /\ hres' = "none"
    /\ pc' = IF SendResult(WorkerAlive) = "Ok" THEN "recv" ELSE "panicked"
    /\ UNCHANGED <<curKey, hsends, sent, inited, buttons, workerVars, devVars, bg>>
    /\ UNCHANGED <<connErr, regVars, obsVars, decVars, colVars, evVars>>

\* deck.send(Message::ReadButtons(tx)).unwrap() with a fresh reply channel
Poll ==
    /\ pc = "poll"
    /\ StreamDeckSend("main", "ReadButtons", NoKey)
    /\ reply' = IF WorkerAlive THEN ReplyPending ELSE ReplyDropped
    /\ prevSnap' = IF snap.tag = "Keys" THEN snap.keys ELSE prevSnap
    /\ snap' = SnapPending
    /\ cycleClicks' = NoClicks
    /\ slept' = 0
    /\ hres' = "none"
    /\ pc' = IF SendResult(WorkerAlive) = "Ok" THEN "recv" ELSE "panicked"
    /\ UNCHANGED <<curKey, hsends, sent, inited, buttons, workerVars, devVars, bg>>
    /\ UNCHANGED <<connErr, regVars, obsVars, decVars, colVars, evVars>>

\* rx.recv() returned Some(keys): find the pressed key and run its on_click
RecvSome ==
    /\ pc = "recv"
    /\ reply.tag = "Some"
    /\ snap' = SnapKeys(reply.keys)
    /\ reply' = ReplyIdle
    /\ LET key == FindPressed(reply.keys) IN
        IF key # NoKey /\ key \in buttons
        THEN /\ pc' = "click"
             /\ curKey' = key
             /\ hsends' = 0
             /\ sent' = NoSend
             /\ cycleClicks' = [cycleClicks EXCEPT ![key] = @ + 1]
        ELSE /\ pc' = "poll"
             /\ UNCHANGED <<curKey, hsends, sent, cycleClicks>>
    /\ UNCHANGED <<inited, buttons, prevSnap, slept, sendVars, workerVars, devVars, bg>>
    /\ UNCHANGED <<resVars, regVars, obsVars, decVars, colVars, evVars>>

\* variant: a read without data ends the loop
RecvNoneStops ==
    /\ pc = "recv"
    /\ reply.tag = "None"
    /\ snap' = SnapNoData
    /\ reply' = ReplyIdle
    /\ pc' = "panicked"
    /\ UNCHANGED <<curKey, hsends, sent, inited, buttons, prevSnap, cycleClicks, slept,
                   sendVars, workerVars, devVars, bg>>
    /\ UNCHANGED <<resVars, regVars, obsVars, decVars, colVars, evVars>>

\* rx.recv() returned None: thread::sleep(POLLING_RATE) comes next
RecvNone ==
    /\ pc = "recv"
    /\ reply.tag = "None"
    /\ snap' = SnapNoData
    /\ reply' = ReplyIdle
    /\ pc' = "sleep"
    /\ UNCHANGED <<curKey, hsends, sent, inited, buttons, prevSnap, cycleClicks, slept,
                   sendVars, workerVars, devVars, bg>>
    /\ UNCHANGED <<resVars, regVars, obsVars, decVars, colVars, evVars>>

\* rx.recv() failed because the reply sender was dropped: unwrap() panics
RecvDisconnected ==
    /\ pc = "recv"
    /\ reply.tag = "Dropped"
    /\ pc' = "panicked"
    /\ UNCHANGED <<curKey, hsends, sent, inited, buttons, cycleVars, sendVars,
                   workerVars, reply, devVars, bg>>
    /\ UNCHANGED <<resVars, regVars, obsVars, decVars, colVars, evVars>>

\* thread::sleep(POLLING_RATE); continue
Sleep ==
    /\ pc = "sleep"
    /\ slept' = slept + POLLING_RATE
    /\ pc' = "poll"
    /\ UNCHANGED <<curKey, hsends, sent, inited, buttons, snap, prevSnap, cycleClicks,
                   sendVars, workerVars, reply, devVars, bg>>
    /\ UNCHANGED <<resVars, regVars, obsVars, decVars, colVars, evVars>>

\* ------------------------------------------------------------ worker thread
\* while let Ok(msg) = rx.recv(): take the next command and enter the device call
WorkerRecv ==
    /\ worker = "idle"
    /\ chan # <<>>
    /\ cur' = ChanRecv(chan).msg
    /\ chan' = ChanRecv(chan).rest
    /\ worker' = "busy"
    /\ inDeviceOp' = inDeviceOp \cup {"worker"}
    /\ UNCHANGED <<mainVars, cycleVars, opResult, transport, reply, devVars, bg>>
    /\ UNCHANGED <<resVars, regVars, obsVars, decVars, colVars, evVars>>

\* set_button_rgb / set_button_image returned Ok
WorkerSetOk ==
    /\ worker = "busy"
    /\ cur.kind \in {"SetColor", "SetImage"}
    /\ display' = [display EXCEPT ![cur.key] = cur.kind]
    /\ opResult' = "Ok"
    /\ worker' = "idle"
    /\ cur' = NoMsg
    /\ chan' = OneExecuted(chan)
    /\ inDeviceOp' = inDeviceOp \ {"worker"}
    /\ UNCHANGED <<mainVars, cycleVars, transport, reply, phys, reports, bg>>
    /\ UNCHANGED <<resVars, regVars, obsVars, decVars, colVars, evVars>>

\* variant: the snapshot is read but never sent on the reply channel
WorkerReadOkNoReply ==
    /\ worker = "busy"
    /\ cur.kind = "ReadButtons"
    /\ reports # <<>>
    /\ reply' = reply
    /\ reports' = Tail(reports)
    /\ opResult' = "Ok"
    /\ worker' = "idle"
    /\ cur' = NoMsg
    /\ chan' = OneExecuted(chan)
    /\ inDeviceOp' = inDeviceOp \ {"worker"}
    /\ UNCHANGED <<mainVars, cycleVars, transport, phys, display, bg>>
    /\ UNCHANGED <<resVars, regVars, obsVars, decVars, colVars, evVars>>

\* read_buttons returned Ok(keys): the oldest pending input report
WorkerReadOk ==
    /\ worker = "busy"
    /\ cur.kind = "ReadButtons"
    /\ reports # <<>>
    /\ reply' = ReplySome(Head(reports))
    /\ reports' = Tail(reports)
    /\ opResult' = "Ok"
    /\ worker' = "idle"
    /\ cur' = NoMsg
    /\ chan' = OneExecuted(chan)
    /\ inDeviceOp' = inDeviceOp \ {"worker"}
    /\ UNCHANGED <<mainVars, cycleVars, transport, phys, display, bg>>
    /\ UNCHANGED <<resVars, regVars, obsVars, decVars, colVars, evVars>>

\* variant: NoData is treated like every other device error
WorkerReadNoDataFatal ==
    /\ worker = "busy"
    /\ cur.kind = "ReadButtons"
    /\ reports = <<>>
    /\ reply' = ReplyDropped
    /\ opResult' = "NoData"
    /\ worker' = "dead"
    /\ cur' = NoMsg
    /\ chan' = chan
    /\ inDeviceOp' = inDeviceOp \ {"worker"}
    /\ UNCHANGED <<mainVars, cycleVars, transport, devVars, bg>>
    /\ UNCHANGED <<resVars, regVars, obsVars, decVars, colVars, evVars>>

\* read_buttons returned Err(NoData): no input report is pending
WorkerReadNoData ==
    /\ worker = "busy"
    /\ cur.kind = "ReadButtons"
    /\ reports = <<>>
    /\ reply' = ReplyNone
    /\ opResult' = "NoData"
    /\ worker' = "idle"
    /\ cur' = NoMsg
    /\ chan' = OneExecuted(chan)
    /\ inDeviceOp' = inDeviceOp \ {"worker"}
    /\ UNCHANGED <<mainVars, cycleVars, transport, devVars, bg>>
    /\ UNCHANGED <<resVars, regVars, obsVars, decVars, colVars, evVars>>

\* variant: the worker stops without dropping the reply sender it holds
WorkerPanicKeepsReply ==
    /\ worker = "busy"
    /\ \E e \in (IF cur.kind = "ReadButtons" THEN {"Err"} ELSE {"Err", "Rejected"}) :
        opResult' = e
    /\ worker' = "dead"
    /\ transport' = {}
    /\ inDeviceOp' = inDeviceOp \ {"worker"}
    /\ chan' = <<>>
    /\ reply' = reply
    /\ cur' = NoMsg
    /\ UNCHANGED <<mainVars, cycleVars, devVars, bg>>
    /\ UNCHANGED <<resVars, regVars, obsVars, decVars, colVars, evVars>>

\* any other device error: unwrap()/panic! unwinds the worker thread, dropping
\* the transport, the command receiver and every queued reply sender. A read
\* fails with a hardware-level error (Hid, Io); a write fails with one of those
\* or is rejected without a hardware fault (InvalidKeyIndex, InvalidImageSize)
WorkerPanic ==
    /\ worker = "busy"
    /\ \E e \in (IF cur.kind = "ReadButtons" THEN {"Err"} ELSE {"Err", "Rejected"}) :
        opResult' = e
    /\ worker' = "dead"
    /\ transport' = {}
    /\ inDeviceOp' = inDeviceOp \ {"worker"}
    /\ chan' = <<>>
    /\ reply' = IF reply.tag = "Pending" THEN ReplyDropped ELSE reply
    /\ cur' = NoMsg
    /\ UNCHANGED <<mainVars, cycleVars, devVars, bg>>
    /\ UNCHANGED <<resVars, regVars, obsVars, decVars, colVars, evVars>>

\* -------------------------------------------------- background event thread
\* self_ref.toggle(key.clone()).unwrap(): render() sends SetImage for the
\* thread's key; an Err of the send would unwind the thread
BgSend ==
    /\ bg = "running"
    /\ StreamDeckSend("bg", "SetImage", 0)
    /\ bg' = IF SendResult(WorkerAlive) = "Ok" THEN bg ELSE "dead"
    /\ UNCHANGED <<mainVars, cycleVars, workerVars, reply, devVars>>
    /\ UNCHANGED <<resVars, regVars, obsVars, decVars, colVars, evVars>>

\* -------------------------------------------------------------- environment
\* a key changes state while the device is open: the device queues an input report
KeyChange ==
    /\ transport # {}
    /\ Len(reports) < MaxReports
    /\ \E k \in Keys :
        /\ phys' = [phys EXCEPT ![k] = 1 - @]
        /\ reports' = Append(reports, phys')
    /\ UNCHANGED <<mainVars, cycleVars, sendVars, workerVars, reply, display, bg>>
    /\ UNCHANGED <<resVars, regVars, obsVars, decVars, colVars, evVars>>

Next ==
    \/ ConnectOk \/ ConnectFail
    \/ InitNext \/ InitDone
    \/ HandlerSend \/ HandlerSpawnBg \/ HandlerReturn
    \/ Poll \/ RecvSome \/ RecvNone \/ RecvDisconnected \/ Sleep
    \/ WorkerRecv \/ WorkerSetOk \/ WorkerReadOk \/ WorkerReadNoData \/ WorkerPanic
    \/ BgSend
    \/ KeyChange

Spec == Init /\ [][Next]_vars

\* the steps of the dispatch loop and of the worker thread
LoopStep ==
    \/ InitNext \/ InitDone \/ HandlerReturn
    \/ Poll \/ RecvSome \/ RecvNone \/ RecvDisconnected \/ Sleep
WorkerStep == WorkerRecv \/ WorkerSetOk \/ WorkerReadOk \/ WorkerReadNoData

\* ------------------------------------------- handler-table lock (core.rs)
\* main_loop holds the write guard of state.buttons while it runs handlers:
\* the temporary of `buttons.write().unwrap().iter_mut()` lives until the init
\* loop ends, and `let mut buttons = buttons.write().unwrap()` lives until the
\* end of the dispatch block, across the await of exec_click
ButtonsWriteGuard == pc \in {"init", "initBody", "click", "lockwait"}

\* a handler body looks up another handler: state.buttons.read() in init or
\* on_click. RwLock::read on a lock that the calling thread holds for writing
\* either blocks forever or panics; with the lock free it returns the guard
HandlerLookup ==
    /\ pc \in {"initBody", "click"}
    /\ IF ButtonsWriteGuard
       THEN \E outcome \in {"lockwait", "handlerPanicked"} : pc' = outcome
       ELSE pc' = pc
    /\ UNCHANGED <<curKey, hsends, sent, inited, buttons, cycleVars, sendVars, workerVars, reply, devVars, bg>>
    /\ UNCHANGED <<resVars, regVars, obsVars, decVars, colVars, evVars>>

NextTable == Next \/ HandlerLookup

SpecTable == Init /\ [][NextTable]_vars

\* ----------------------------------------------- shared-state registry
\* HashMap::insert: the entry of an equal key is replaced
HashMapInsert(m, k, b) == {e \in m : e.key # k} \cup {[key |-> k, box |-> b]}

\* variant: a present entry is kept and the new value is discarded
TypeMapInsertIfAbsent(m, T, v) ==
    IF \E e \in m : e.key = T THEN m
    ELSE HashMapInsert(m, T, [ty |-> T, val |-> v])

\* TypeMap::insert<T>(value): box the value under TypeId::of::<T>()
TypeMapInsert(m, T, v) == HashMapInsert(m, T, [ty |-> T, val |-> v])

\* TypeMap::contains_key<T>()
TypeMapContainsKey(m, T) == \E e \in m : e.key = T

\* TypeMap::get<T>(): look up TypeId::of::<T>(), then downcast_ref::<T>()
TypeMapGet(m, T) ==
    IF \E e \in m : e.key = T
    THEN LET e == CHOOSE x \in m : x.key = T IN
         IF e.box.ty = T THEN e.box.val ELSE Absent
    ELSE Absent

\* the last two values inserted for a type, oldest first
Remember(h, v) == IF Len(h) < 2 THEN Append(h, v) ELSE <<h[2], v>>
LastInserted(T) == IF tmHist[T] = <<>> THEN Absent ELSE tmHist[T][Len(tmHist[T])]

\* insert::<T>(v) on the registry
TMInsert ==
    /\ \E T \in Types, v \in Values :
        /\ typemap' = TypeMapInsert(typemap, T, v)
        /\ tmHist' = [tmHist EXCEPT ![T] = Remember(@, v)]
    /\ UNCHANGED <<tmGot, deckVars, obsVars, decVars, colVars, evVars>>

\* get::<T>() on the registry
TMGet ==
    /\ \E T \in Types :
        tmGot' = [tag |-> "Got", ty |-> T, res |-> TypeMapGet(typemap, T),
                  exp |-> LastInserted(T)]
    /\ UNCHANGED <<typemap, tmHist, deckVars, obsVars, decVars, colVars, evVars>>

NextTM == TMInsert \/ TMGet

SpecTM == Init /\ [][NextTM]_vars

\* ------------------------------------------------ OBSClient::new (obs.rs)
Spawned == {s \in Sessions : sess[s] # "unspawned"}
NextSession == CHOOSE x \in Sessions \ Spawned : \A y \in Sessions \ Spawned : x <= y
CarriesReply(kind) == kind # "SaveReplayBuffer"
HasReply(q) == \E i \in 1..Len(q) : CarriesReply(q[i])

\* a sender of the session's channel is alive: the registry entry or a clone
\* taken by get_client_from_state
SendersAlive(s) ==
    \/ TypeMapGet(typemap, "OBSClient") = s
    \/ cpc \in {"send", "await"} /\ cclient = s

\* state.typemap.read(): shared lock, granted while no writer holds the lock
NewReadLock(t) ==
    /\ cpc = "init"
    /\ npc[t] \in {"idle", "done"}
    /\ rwWriter = NoTask
    /\ rwReaders' = rwReaders \cup {t}
    /\ npc' = [npc EXCEPT ![t] = "check"]
    /\ overlap' = (overlap \/ \E u \in Tasks \ {t} : npc[u] \notin {"idle", "done"})
    /\ UNCHANGED <<rwWriter, sessVars, callerVars, regVars, deckVars, decVars, colVars, evVars>>

\* variant: the type is never found present, every call goes on to spawn
NewCheckNoSkip(t) ==
    /\ npc[t] = "check"
    /\ rwReaders' = rwReaders \ {t}
    /\ npc' = [npc EXCEPT ![t] = "absent"]
    /\ UNCHANGED <<rwWriter, overlap, sessVars, callerVars, regVars, deckVars, decVars, colVars, evVars>>

\* contains_key::<Self>() under the read guard: return Ok(()) when present,
\* else drop(typemap) and go on to take the write lock
NewCheck(t) ==
    /\ npc[t] = "check"
    /\ rwReaders' = rwReaders \ {t}
    /\ npc' = [npc EXCEPT ![t] =
                 IF TypeMapContainsKey(typemap, "OBSClient") THEN "done" ELSE "absent"]
    /\ UNCHANGED <<rwWriter, overlap, sessVars, callerVars, regVars, deckVars, decVars, colVars, evVars>>

\* state.typemap.write(): exclusive lock
NewWriteLock(t) ==
    /\ npc[t] = "absent"
    /\ rwWriter = NoTask
    /\ rwReaders = {}
    /\ rwWriter' = t
    /\ npc' = [npc EXCEPT ![t] = "locked"]
    /\ UNCHANGED <<rwReaders, overlap, sessVars, callerVars, regVars, deckVars, decVars, colVars, evVars>>

\* mpsc::channel(32); task::spawn(..); typemap.insert(Self { tx }); the write
\* guard is dropped on return
NewSpawnInsert(t) ==
    /\ npc[t] = "locked"
    /\ sess' = [sess EXCEPT ![NextSession] = "connecting"]
    /\ typemap' = TypeMapInsert(typemap, "OBSClient", NextSession)
    /\ tmHist' = [tmHist EXCEPT !["OBSClient"] = Remember(@, NextSession)]
    /\ rwWriter' = NoTask
    /\ npc' = [npc EXCEPT ![t] = "done"]
    /\ UNCHANGED <<rwReaders, overlap, obsReconnect, squeue, sfails, sconn, callerVars, tmGot, deckVars, decVars, colVars, evVars>>

\* ------------------------------------------- OBS background session task
\* Client::connect returned Ok: enter the request loop
SessConnectOk(s) ==
    /\ sess[s] = "connecting"
    /\ sess' = [sess EXCEPT ![s] = "connected"]
    /\ sconn' = [sconn EXCEPT ![s] = "up"]
    /\ UNCHANGED <<obsReconnect, squeue, sfails, lockVars, callerVars, regVars, deckVars, decVars, colVars, evVars>>

\* variant: the task ends but the queued messages are never dropped
SessConnectFailKeepsQueue(s) ==
    /\ sess[s] = "connecting"
    /\ sfails' = [sfails EXCEPT ![s] = IF @ < MaxConnectFails THEN @ + 1 ELSE @]
    /\ IF obsReconnect = "None"
       THEN /\ sess' = [sess EXCEPT ![s] = "terminated"]
            /\ UNCHANGED <<squeue, oneshot>>
       ELSE /\ sess' = [sess EXCEPT ![s] = "backoff"]
            /\ UNCHANGED <<squeue, oneshot>>
    /\ UNCHANGED <<obsReconnect, sconn, lockVars, cpc, ckind, cclient, cres, cAfterTerm,
                   regVars, deckVars, decVars, colVars, evVars>>

\* Client::connect returned Err: sleep the backoff when one is configured,
\* else break; the task ends and drops rx with every queued message
SessConnectFail(s) ==
    /\ sess[s] = "connecting"
    /\ sfails' = [sfails EXCEPT ![s] = IF @ < MaxConnectFails THEN @ + 1 ELSE @]
    /\ IF obsReconnect = "None"
       THEN /\ sess' = [sess EXCEPT ![s] = "terminated"]
            /\ squeue' = [squeue EXCEPT ![s] = <<>>]
            /\ oneshot' = IF HasReply(squeue[s]) THEN "dropped" ELSE oneshot
       ELSE /\ sess' = [sess EXCEPT ![s] = "backoff"]
            /\ UNCHANGED <<squeue, oneshot>>
    /\ UNCHANGED <<obsReconnect, sconn, lockVars, cpc, ckind, cclient, cres, cAfterTerm,
                   regVars, deckVars, decVars, colVars, evVars>>

\* time::sleep(dur) elapsed: continue with the next connect attempt
SessBackoffElapsed(s) ==
    /\ sess[s] = "backoff"
    /\ sess' = [sess EXCEPT ![s] = "connecting"]
    /\ UNCHANGED <<obsReconnect, squeue, sfails, sconn, lockVars, callerVars, regVars, deckVars, decVars, colVars, evVars>>

\* the websocket connection of the obws client is lost while the task is in
\* its request loop
SessConnectionLost(s) ==
    /\ sess[s] = "connected"
    /\ sconn[s] = "up"
    /\ sconn' = [sconn EXCEPT ![s] = "broken"]
    /\ UNCHANGED <<obsReconnect, sess, squeue, sfails, lockVars, callerVars, regVars, deckVars, decVars, colVars, evVars>>

\* rx.recv() returned Some(msg): call the client and answer on the one-shot
\* sender when the message carries one; on a lost connection the call returns
\* Err, which is sent back (or printed) like any other result
SessServe(s) ==
    /\ sess[s] = "connected"
    /\ squeue[s] # <<>>
    /\ squeue' = [squeue EXCEPT ![s] = Tail(@)]
    /\ IF CarriesReply(Head(squeue[s]))
       THEN \E r \in (IF sconn[s] = "up" THEN {"Ok", "Err"} ELSE {"Err"}) : oneshot' = r
       ELSE oneshot' = oneshot
    /\ UNCHANGED <<obsReconnect, sess, sfails, sconn, lockVars, cpc, ckind, cclient, cres,
                   cAfterTerm, regVars, deckVars, decVars, colVars, evVars>>

\* rx.recv() returned None (every sender is gone): the while loop ends, the
\* client is dropped and the outer loop connects again
SessChannelClosed(s) ==
    /\ sess[s] = "connected"
    /\ squeue[s] = <<>>
    /\ ~SendersAlive(s)
    /\ sess' = [sess EXCEPT ![s] = "connecting"]
    /\ sconn' = [sconn EXCEPT ![s] = "none"]
    /\ UNCHANGED <<obsReconnect, squeue, sfails, lockVars, callerVars, regVars, deckVars, decVars, colVars, evVars>>

\* ------------------------------------- callers of the OBSClient requests
\* on_click: get_client_from_state clones the registered client, the request
\* method creates its one-shot channel
CallerStart ==
    /\ cpc \in {"init", "done"}
    /\ \A t \in Tasks : npc[t] = "done"
    /\ TypeMapContainsKey(typemap, "OBSClient")
    /\ \E kind \in RequestKinds :
        /\ ckind' = kind
        /\ oneshot' = IF CarriesReply(kind) THEN "pending" ELSE "none"
    /\ cclient' = TypeMapGet(typemap, "OBSClient")
    /\ cres' = "none"
    /\ cAfterTerm' = FALSE
    /\ cpc' = "send"
    /\ UNCHANGED <<lockVars, sessVars, regVars, deckVars, decVars, colVars, evVars>>

\* OBSClient::send: self.tx.send(msg).await with the result discarded; a closed
\* channel drops the message, a full channel suspends the caller
CallerSend ==
    /\ cpc = "send"
    /\ IF sess[cclient] = "terminated"
       THEN /\ oneshot' = IF oneshot = "pending" THEN "dropped" ELSE oneshot
            /\ cAfterTerm' = TRUE
            /\ UNCHANGED squeue
       ELSE /\ Len(squeue[cclient]) < OBS_CHANNEL_CAPACITY
            /\ squeue' = [squeue EXCEPT ![cclient] = Append(@, ckind)]
            /\ UNCHANGED <<oneshot, cAfterTerm>>
    /\ IF CarriesReply(ckind)
       THEN cpc' = "await" /\ cres' = cres
       ELSE cpc' = "done" /\ cres' = "Ok"
    /\ UNCHANGED <<ckind, cclient, obsReconnect, sess, sfails, sconn, lockVars, regVars, deckVars, decVars, colVars, evVars>>

\* rx.await: the reply, or Error::NoResponse when the sender was dropped
CallerAwait ==
    /\ cpc = "await"
    /\ oneshot \in {"Ok", "Err", "dropped"}
    /\ cres' = IF oneshot = "dropped" THEN "NoResponse" ELSE oneshot
    /\ oneshot' = "none"
    /\ cpc' = "done"
    /\ UNCHANGED <<ckind, cclient, cAfterTerm, lockVars, sessVars, regVars, deckVars, decVars, colVars, evVars>>

\* the reconnect policy is OBS_CLIENT_RECONNECT: none, or a configured delay
InitOBS ==
    /\ buttons = Keys
    /\ DeckStart
    /\ RegStart
    /\ ObsStart
    /\ obsReconnect \in {"None", "Some"}
    /\ DecodeStart
    /\ ColorStart
    /\ EventStart

NextOBS ==
    \/ \E t \in Tasks : NewReadLock(t) \/ NewCheck(t) \/ NewWriteLock(t) \/ NewSpawnInsert(t)
    \/ \E s \in Sessions :
        \/ SessConnectOk(s) \/ SessConnectFail(s) \/ SessBackoffElapsed(s)
        \/ SessServe(s) \/ SessChannelClosed(s) \/ SessConnectionLost(s)
    \/ CallerStart \/ CallerSend \/ CallerAwait

SpecOBS == InitOBS /\ [][NextOBS]_vars

\* the tokio runtime polls a task whose future is ready: a caller that can
\* complete its send or its rx.await does so
SpecOBSLive == SpecOBS /\ WF_vars(CallerSend) /\ WF_vars(CallerAwait)

\* one step of the background task of session s
SessStep(s) ==
    \/ SessConnectOk(s) \/ SessConnectFail(s) \/ SessBackoffElapsed(s)
    \/ SessServe(s) \/ SessChannelClosed(s)

\* the runtime also polls the spawned session tasks: a connect attempt resolves
\* (either way), a sleep elapses, a received message is served
SpecOBSFair == SpecOBSLive /\ \A s \in Sessions : WF_vars(SessStep(s))

\* ------------------------------------------- pactl decoders (main.rs)
\* the byte-string literals of the decoders and of the pactl output, one
\* element per byte
Bytes(s) ==
    CASE s = "Event" -> <<"E", "v", "e", "n", "t">>
      [] s = "on" -> <<"o", "n">>
      [] s = "'new'" -> <<"'", "n", "e", "w", "'">>
      [] s = "'change'" -> <<"'", "c", "h", "a", "n", "g", "e", "'">>
      [] s = "'remove'" -> <<"'", "r", "e", "m", "o", "v", "e", "'">>
      [] s = "'bogus'" -> <<"'", "b", "o", "g", "u", "s", "'">>
      [] s = "sink" -> <<"s", "i", "n", "k">>
      [] s = "source" -> <<"s", "o", "u", "r", "c", "e">>
      [] s = "card" -> <<"c", "a", "r", "d">>
      [] s = "source-output" -> <<"s", "o", "u", "r", "c", "e", "-", "o", "u", "t", "p", "u", "t">>
      [] s = "client" -> <<"c", "l", "i", "e", "n", "t">>
      [] s = "sink-input" -> <<"s", "i", "n", "k", "-", "i", "n", "p", "u", "t">>
      [] s = "unknownthing" -> <<"u", "n", "k", "n", "o", "w", "n", "t", "h", "i", "n", "g">>
      [] s = "Sink" -> <<"S", "i", "n", "k">>
      [] s = "State" -> <<"S", "t", "a", "t", "e">>
      [] s = "Name" -> <<"N", "a", "m", "e">>
      [] s = "Description" -> <<"D", "e", "s", "c", "r", "i", "p", "t", "i", "o", "n">>
      [] s = "Driver" -> <<"D", "r", "i", "v", "e", "r">>
      [] s = "Sample Specification" -> <<"S", "a", "m", "p", "l", "e", " ", "S", "p", "e", "c", "i", "f", "i", "c", "a", "t", "i", "o", "n">>
      [] s = "Channel Map" -> <<"C", "h", "a", "n", "n", "e", "l", " ", "M", "a", "p">>
      [] s = "Owner Module" -> <<"O", "w", "n", "e", "r", " ", "M", "o", "d", "u", "l", "e">>
      [] s = "Mute" -> <<"M", "u", "t", "e">>
      [] s = "Volume" -> <<"V", "o", "l", "u", "m", "e">>
      [] s = "Monitor Source" -> <<"M", "o", "n", "i", "t", "o", "r", " ", "S", "o", "u", "r", "c", "e">>
      [] s = "Latency" -> <<"L", "a", "t", "e", "n", "c", "y">>
      [] s = "Flags" -> <<"F", "l", "a", "g", "s">>
      [] s = "Properties" -> <<"P", "r", "o", "p", "e", "r", "t", "i", "e", "s">>
      [] s = "Formats" -> <<"F", "o", "r", "m", "a", "t", "s">>
      [] s = "Ports" -> <<"P", "o", "r", "t", "s">>
      [] s = "IDLE" -> <<"I", "D", "L", "E">>
      [] s = "RUNNING" -> <<"R", "U", "N", "N", "I", "N", "G">>
      [] s = "SUSPENDED" -> <<"S", "U", "S", "P", "E", "N", "D", "E", "D">>
      [] s = "BOGUS" -> <<"B", "O", "G", "U", "S">>
      [] s = "yes" -> <<"y", "e", "s">>
      [] s = "no" -> <<"n", "o">>
      [] s = "alsa" -> <<"a", "l", "s", "a">>
      [] s = "s16le" -> <<"s", "1", "6", "l", "e">>

DigitChars == <<"0", "1", "2", "3", "4", "5", "6", "7", "8", "9">>
IsDigit(c) == \E d \in 0..9 : DigitChars[d + 1] = c
DigitValue(c) == CHOOSE d \in 0..9 : DigitChars[d + 1] = c

\* the decimal text of an id as pactl prints it
RECURSIVE FormatId(_)
FormatId(n) ==
    IF n < 10 THEN <<DigitChars[n + 1]>>
    ELSE FormatId(n \div 10) \o <<DigitChars[(n % 10) + 1]>>

\* position of the first byte equal to sep, 0 when there is none
FirstIndex(buf, sep) ==
    IF \A i \in 1..Len(buf) : buf[i] # sep THEN 0
    ELSE CHOOSE i \in 1..Len(buf) : buf[i] = sep /\ \A j \in 1..(i - 1) : buf[j] # sep

\* slice::split(|b| *b == sep): every separator ends one (possibly empty) part
RECURSIVE SliceSplit(_, _)
SliceSplit(buf, sep) ==
    LET i == FirstIndex(buf, sep) IN
    IF i = 0 THEN <<buf>>
    ELSE <<SubSeq(buf, 1, i - 1)>> \o SliceSplit(SubSeq(buf, i + 1, Len(buf)), sep)

\* slice::splitn(2, |b| *b == sep): split at the first separator only
SliceSplitn2(buf, sep) ==
    LET i == FirstIndex(buf, sep) IN
    IF i = 0 THEN <<buf>>
    ELSE <<SubSeq(buf, 1, i - 1), SubSeq(buf, i + 1, Len(buf))>>

\* slice::starts_with and slice::strip_prefix
StartsWith(buf, pre) == Len(buf) >= Len(pre) /\ SubSeq(buf, 1, Len(pre)) = pre
StripPrefix(buf, pre) ==
    IF StartsWith(buf, pre)
    THEN [some |-> TRUE, rest |-> SubSeq(buf, Len(pre) + 1, Len(buf))]
    ELSE [some |-> FALSE, rest |-> <<>>]

\* str::parse::<u32>(): an optional '+' and one or more decimal digits (the ids
\* read here have few digits, far from the u32 range)
RECURSIVE DigitsValue(_)
DigitsValue(d) ==
    IF d = <<>> THEN 0
    ELSE 10 * DigitsValue(SubSeq(d, 1, Len(d) - 1)) + DigitValue(d[Len(d)])
ParseU32(s) ==
    LET d == IF s # <<>> /\ s[1] = "+" THEN Tail(s) ELSE s IN
    IF d # <<>> /\ \A i \in 1..Len(d) : IsDigit(d[i])
    THEN [ok |-> TRUE, val |-> DigitsValue(d)]
    ELSE [ok |-> FALSE, val |-> 0]

\* values returned by the decoders: Ok(..), Err(Error::DeserializeError), or a
\* panic of the calling thread (unwrap, assert_eq!, index out of bounds)
NoDst == [ty |-> "None", id |-> 0]
OutOk(event, dst) == [tag |-> "Ok", event |-> event, dst |-> dst, sinks |-> <<>>]
OutSinks(sinks) == [tag |-> "Ok", event |-> "None", dst |-> NoDst, sinks |-> sinks]
OutErr == [tag |-> "Err", event |-> "None", dst |-> NoDst, sinks |-> <<>>]
OutPanic == [tag |-> "Panic", event |-> "None", dst |-> NoDst, sinks |-> <<>>]

\* Event::deserialize
EventDeserialize(buf) ==
    CASE buf = Bytes("'new'") -> "New"
      [] buf = Bytes("'change'") -> "Change"
      [] buf = Bytes("'remove'") -> "Remove"
      [] OTHER -> "None"

\* EventDst::deserialize: the id is parsed (and unwrapped) before the entity
\* type is matched
EventDstDeserialize(b0, b1) ==
    LET sp == StripPrefix(b1, <<"#">>) IN
    IF ~sp.some THEN [tag |-> "None", dst |-> NoDst]
    ELSE LET id == ParseU32(sp.rest) IN
         IF ~id.ok THEN [tag |-> "Panic", dst |-> NoDst]
         ELSE CASE b0 = Bytes("sink") -> [tag |-> "Some", dst |-> [ty |-> "Sink", id |-> id.val]]
                [] b0 = Bytes("source") -> [tag |-> "Some", dst |-> [ty |-> "Source", id |-> id.val]]
                [] b0 = Bytes("card") -> [tag |-> "Some", dst |-> [ty |-> "Card", id |-> id.val]]
                [] b0 = Bytes("source-output") ->
                        [tag |-> "Some", dst |-> [ty |-> "SourceOutput", id |-> id.val]]
                [] b0 = Bytes("client") -> [tag |-> "Some", dst |-> [ty |-> "Client", id |-> id.val]]
                [] b0 = Bytes("sink-input") ->
                        [tag |-> "Some", dst |-> [ty |-> "SinkInput", id |-> id.val]]
                [] OTHER -> [tag |-> "None", dst |-> NoDst]

\* Subscription::read_event on the line read by read_until(b'\n')
SubscriptionReadEvent(line) ==
    IF line = <<>> THEN OutPanic
    ELSE LET buf == SubSeq(line, 1, Len(line) - 1)
             parts == SliceSplit(buf, " ")
         IN
         IF parts[1] # Bytes("Event") THEN OutPanic
         ELSE IF Len(parts) < 2 THEN OutPanic
         ELSE IF EventDeserialize(parts[2]) = "None" THEN OutPanic
         ELSE IF Len(parts) < 3 THEN OutPanic
         ELSE IF parts[3] # Bytes("on") THEN OutPanic
         ELSE IF Len(parts) < 5 THEN OutPanic
         ELSE LET d == EventDstDeserialize(parts[4], parts[5]) IN
              CASE d.tag = "Panic" -> OutPanic
                [] d.tag = "None" -> OutErr
                [] OTHER -> OutOk(EventDeserialize(parts[2]), d.dst)

\* SinkState::deserialize
SinkStateDeserialize(buf) ==
    CASE buf = Bytes("IDLE") -> "Idle"
      [] buf = Bytes("RUNNING") -> "Running"
      [] buf = Bytes("SUSPENDED") -> "Suspended"
      [] OTHER -> "None"

\* Sink::default()
SinkDefault ==
    [id |-> 0, state |-> "Undefined", name |-> <<>>, description |-> <<>>,
     driver |-> <<>>, sample_specification |-> <<>>, channel_map |-> <<>>,
     owner_module |-> <<>>, mute |-> FALSE, volume |-> <<>>, base_volume |-> <<>>,
     monitor_source |-> <<>>, latency |-> <<>>, flags |-> <<>>, properties |-> <<>>,
     formats |-> <<>>]

\* one iteration of the loop of Sink::deserialize: a tab-indented `Key: Value`
\* line, or the header line `Sink #<id>`
SinkDeserializePart(sink, part) ==
    LET sp == StripPrefix(part, <<"\t">>) IN
    IF sp.some
    THEN LET parts == SliceSplitn2(sp.rest, ":") IN
         IF Len(parts) < 2 THEN [tag |-> "Ok", sink |-> sink]
         ELSE LET key == parts[1]
                  val == IF StartsWith(parts[2], <<" ">>) THEN Tail(parts[2]) ELSE parts[2]
              IN
              CASE key = Bytes("State") ->
                      IF SinkStateDeserialize(val) = "None" THEN [tag |-> "Panic", sink |-> sink]
                      ELSE [tag |-> "Ok", sink |-> [sink EXCEPT !.state = SinkStateDeserialize(val)]]
                [] key = Bytes("Name") -> [tag |-> "Ok", sink |-> [sink EXCEPT !.name = val]]
                [] key = Bytes("Description") ->
                      [tag |-> "Ok", sink |-> [sink EXCEPT !.description = val]]
                [] key = Bytes("Driver") -> [tag |-> "Ok", sink |-> [sink EXCEPT !.driver = val]]
                [] key = Bytes("Sample Specification") ->
                      [tag |-> "Ok", sink |-> [sink EXCEPT !.driver = val]]
                [] key = Bytes("Channel Map") ->
                      [tag |-> "Ok", sink |-> [sink EXCEPT !.channel_map = val]]
                [] key = Bytes("Owner Module") ->
                      [tag |-> "Ok", sink |-> [sink EXCEPT !.owner_module = val]]
                [] key = Bytes("Mute") ->
                      [tag |-> "Ok", sink |-> [sink EXCEPT !.mute = (val = Bytes("yes"))]]
                [] key = Bytes("Volume") -> [tag |-> "Ok", sink |-> [sink EXCEPT !.volume = val]]
                [] key = Bytes("Monitor Source") ->
                      [tag |-> "Ok", sink |-> [sink EXCEPT !.monitor_source = val]]
                [] key = Bytes("Latency") -> [tag |-> "Ok", sink |-> [sink EXCEPT !.latency = val]]
                [] key = Bytes("Flags") -> [tag |-> "Ok", sink |-> [sink EXCEPT !.flags = val]]
                [] OTHER -> [tag |-> "Ok", sink |-> sink]
    ELSE LET parts == SliceSplit(part, " ") IN
         IF parts[1] # Bytes("Sink") THEN [tag |-> "Panic", sink |-> sink]
         ELSE IF Len(parts) < 2 THEN [tag |-> "Panic", sink |-> sink]
         ELSE IF parts[2] = <<>> THEN [tag |-> "Panic", sink |-> sink]
         ELSE IF parts[2][1] # "#" THEN [tag |-> "Panic", sink |-> sink]
         ELSE LET id == ParseU32(Tail(parts[2])) IN
              IF ~id.ok THEN [tag |-> "Panic", sink |-> sink]
              ELSE [tag |-> "Ok", sink |-> [sink EXCEPT !.id = id.val]]

\* Sink::deserialize: fold the lines of one block into a record
RECURSIVE SinkDeserializeFrom(_, _)
SinkDeserializeFrom(sink, buf) ==
    IF buf = <<>> THEN [tag |-> "Ok", sink |-> sink]
    ELSE LET r == SinkDeserializePart(sink, Head(buf)) IN
         IF r.tag = "Panic" THEN r ELSE SinkDeserializeFrom(r.sink, Tail(buf))
SinkDeserialize(buf) == SinkDeserializeFrom(SinkDefault, buf)

\* list_sinks, the splitting loop: an empty line closes the block collected so
\* far; lines after the last empty line are dropped with sink_raw
RECURSIVE SplitSinks(_, _)
SplitSinks(parts, sink_raw) ==
    IF parts = <<>> THEN <<>>
    ELSE IF Head(parts) = <<>>
         THEN <<sink_raw>> \o SplitSinks(Tail(parts), <<>>)
         ELSE SplitSinks(Tail(parts), Append(sink_raw, Head(parts)))

\* list_sinks, the decoding loop: Sink::deserialize(&sink_raw).unwrap()
RECURSIVE DeserializeSinks(_)
DeserializeSinks(sinks_raw) ==
    IF sinks_raw = <<>> THEN OutSinks(<<>>)
    ELSE LET r == SinkDeserialize(Head(sinks_raw))
             rest == DeserializeSinks(Tail(sinks_raw))
         IN
         IF r.tag = "Panic" \/ rest.tag = "Panic" THEN OutPanic
         ELSE OutSinks(<<r.sink>> \o rest.sinks)

\* list_sinks on the standard output of `pactl list sinks`
ListSinksDecode(output) == DeserializeSinks(SplitSinks(SliceSplit(output, "\n"), <<>>))

\* the texts pactl can print: event lines with a known or an unknown kind and
\* entity type, and listings of one or two sink blocks
EventKinds == {"'new'", "'change'", "'remove'", "'bogus'"}
EntityTypes == {"sink", "source", "card", "source-output", "client", "sink-input",
                "unknownthing"}
Ids == 0..MaxId
EventLine(k, t, id) ==
    Bytes("Event") \o <<" ">> \o Bytes(k) \o <<" ">> \o Bytes("on") \o <<" ">>
        \o Bytes(t) \o <<" ", "#">> \o FormatId(id) \o <<"\n">>
EventInputs ==
    {[tag |-> "event", kind |-> k, ty |-> t, id |-> i, blocks |-> <<>>,
      bytes |-> EventLine(k, t, i)] : k \in EventKinds, t \in EntityTypes, i \in Ids}

SinkAttrs ==
    {[key |-> "State", value |-> "RUNNING"], [key |-> "State", value |-> "IDLE"],
     [key |-> "State", value |-> "BOGUS"],
     [key |-> "Mute", value |-> "yes"], [key |-> "Mute", value |-> "no"],
     [key |-> "Driver", value |-> "alsa"],
     [key |-> "Sample Specification", value |-> "s16le"],
     [key |-> "Ports", value |-> "alsa"]}
AttrLine(a) == <<"\t">> \o Bytes(a.key) \o <<":", " ">> \o Bytes(a.value) \o <<"\n">>
RECURSIVE AttrLines(_)
AttrLines(attrs) ==
    IF attrs = <<>> THEN <<>> ELSE AttrLine(Head(attrs)) \o AttrLines(Tail(attrs))
SinkBlock(b) == Bytes("Sink") \o <<" ", "#">> \o FormatId(b.id) \o <<"\n">> \o AttrLines(b.attrs)
RECURSIVE SinkListing(_)
SinkListing(blocks) ==
    IF blocks = <<>> THEN <<>>
    ELSE IF Len(blocks) = 1 THEN SinkBlock(blocks[1])
    ELSE SinkBlock(Head(blocks)) \o <<"\n">> \o SinkListing(Tail(blocks))
SinkBlocks ==
    {[id |-> i, attrs |-> a] :
        i \in Ids, a \in UNION {[1..n -> SinkAttrs] : n \in 0..MaxBlockLines}}
ListInputs ==
    {[tag |-> "list", kind |-> "", ty |-> "", id |-> 0, blocks |-> bs,
      bytes |-> SinkListing(bs)] :
        bs \in {<<b>> : b \in SinkBlocks}
               \cup {<<b, [id |-> MaxId, attrs |-> <<>>]>> : b \in SinkBlocks}}

\* Subscription::read_event returns what it decoded from the line
ReadEvent ==
    /\ decIn.tag = "event"
    /\ decOut.tag = "none"
    /\ decOut' = SubscriptionReadEvent(decIn.bytes)
    /\ UNCHANGED <<decIn, deckVars, regVars, obsVars, colVars, evVars>>

\* list_sinks returns what it decoded from the listing
ListSinks ==
    /\ decIn.tag = "list"
    /\ decOut.tag = "none"
    /\ decOut' = ListSinksDecode(decIn.bytes)
    /\ UNCHANGED <<decIn, deckVars, regVars, obsVars, colVars, evVars>>

InitDecode ==
    /\ buttons = Keys
    /\ DeckStart
    /\ RegStart
    /\ ObsStart
    /\ obsReconnect = OBS_CLIENT_RECONNECT
    /\ decIn \in EventInputs \cup ListInputs
    /\ decOut = NoOutput
    /\ ColorStart
    /\ EventStart

NextDecode == ReadEvent \/ ListSinks

SpecDecode == InitDecode /\ [][NextDecode]_vars

\* ------------------------------------------------- Color conversions
\* a u8 is a number in 0..255; a u32 is the sequence of its four bytes, least
\* significant first (its value is b[1] + 2^8 b[2] + 2^16 b[3] + 2^24 b[4])
U8 == 0..255
Color(r, g, b) == [r |-> r, g |-> g, b |-> b]

\* `t as u8`: truncation of a u32 to its least significant byte
AsU8(t) == t[1]

\* `t << 8` on a u32: every byte moves one place up, the most significant byte
\* is shifted out and the least significant byte is zero
Shl8(t) == <<0, t[1], t[2], t[3]>>

\* `t << 16` on a u32
Shl16(t) == <<0, 0, t[1], t[2]>>

\* variant: the second and third channels are exchanged
ColorFromTupleSwapped(t) == Color(t[1], t[3], t[2])

\* impl From<(u8, u8, u8)> for Color
ColorFromTuple(t) == Color(t[1], t[2], t[3])

\* impl From<u32> for Color
ColorFromU32(t) == Color(AsU8(t), AsU8(Shl8(t)), AsU8(Shl16(t)))

\* the bytes the conversions are applied to: both ends and the middle of the
\* u8 range
ByteSamples == (0..MaxByte) \cup {128} \cup ((255 - MaxByte)..255)
TupleInputs ==
    {[tag |-> "tuple", vals |-> <<t>>] :
        t \in (ByteSamples \cup {32, 65}) \X (ByteSamples \cup {32, 65}) \X (ByteSamples \cup {32, 65})}
U32Samples == ByteSamples \X ByteSamples \X ByteSamples \X ByteSamples
\* two packed integers, the second being the first with one byte replaced
U32Inputs ==
    {[tag |-> "u32", vals |-> <<t, [t EXCEPT ![i] = v]>>] :
        t \in U32Samples, i \in 1..4, v \in ByteSamples}

\* Color::from((r, g, b)) on the next value
FromTuple ==
    /\ colIn.tag = "tuple"
    /\ Len(colOut) < Len(colIn.vals)
    /\ colOut' = Append(colOut, ColorFromTuple(colIn.vals[Len(colOut) + 1]))
    /\ UNCHANGED <<colIn, deckVars, regVars, obsVars, decVars, evVars>>

\* Color::from(t) of a u32 on the next value
FromU32 ==
    /\ colIn.tag = "u32"
    /\ Len(colOut) < Len(colIn.vals)
    /\ colOut' = Append(colOut, ColorFromU32(colIn.vals[Len(colOut) + 1]))
    /\ UNCHANGED <<colIn, deckVars, regVars, obsVars, decVars, evVars>>

InitColor ==
    /\ buttons = Keys
    /\ DeckStart
    /\ RegStart
    /\ ObsStart
    /\ obsReconnect = OBS_CLIENT_RECONNECT
    /\ DecodeStart
    /\ colIn \in TupleInputs \cup U32Inputs
    /\ colOut = <<>>
    /\ EventStart

NextColor == FromTuple \/ FromU32

SpecColor == InitColor /\ [][NextColor]_vars

\* ------------------------------- event thread (audio.rs DeafenButton::init)
\* the lines of one run of `pactl subscribe`: up to MaxLines event lines with a
\* known or an unknown kind and entity type
SubscribeLines ==
    {[kind |-> k, ty |-> t, bytes |-> EventLine(k, t, MaxId)] :
        k \in EventKinds, t \in EntityTypes}
SubscribeRuns == UNION {[1..n -> SubscribeLines] : n \in 1..MaxLines}

\* `event.0 == Event::Change && match event.1 { EventDst::Sink(_) => true, .. }`
IsSinkChange(out) == out.tag = "Ok" /\ out.event = "Change" /\ out.dst.ty = "Sink"

\* std::thread::spawn(..): Subscription::new() starts pactl subscribe
EvSpawn ==
    /\ evPc = "none"
    /\ evPc' = "read"
    /\ UNCHANGED <<evLines, evPos, evCause, evActs, deckVars, regVars, obsVars, decVars, colVars>>

\* pactl_subscription.read_event() returns for the next line of the pipe (it
\* blocks while no line is there): a panic unwinds the thread, Err ends the
\* `while let` and the outer loop starts it again, Ok enters the body
EvReadEvent ==
    /\ evPc = "read"
    /\ evPos < Len(evLines)
    /\ evPos' = evPos + 1
    /\ LET out == SubscriptionReadEvent(evLines[evPos + 1].bytes) IN
        /\ evPc' = CASE out.tag = "Panic" -> "dead"
                      [] IsSinkChange(out) -> "body"
                      [] OTHER -> "read"
        /\ evCause' = IF out.tag = "Panic" THEN "read_event" ELSE evCause
    /\ UNCHANGED <<evLines, evActs, deckVars, regVars, obsVars, decVars, colVars>>

\* the body for a change of a sink: list_sinks().unwrap(), find the default
\* sink (continue when it is not listed), compare its mute flag and toggle
EvSinkChange ==
    /\ evPc = "body"
    /\ \E listing \in {"Panic", "NoDefault", "SameMute", "OtherMute"} :
        /\ evPc' = IF listing = "Panic" THEN "dead" ELSE "read"
        /\ evCause' = IF listing = "Panic" THEN "list_sinks" ELSE evCause
        /\ evActs' = IF listing = "Panic" THEN evActs ELSE evActs + 1
    /\ UNCHANGED <<evLines, evPos, deckVars, regVars, obsVars, decVars, colVars>>

InitEvents ==
    /\ buttons = Keys
    /\ DeckStart
    /\ RegStart
    /\ ObsStart
    /\ obsReconnect = OBS_CLIENT_RECONNECT
    /\ DecodeStart
    /\ ColorStart
    /\ evLines \in SubscribeRuns
    /\ evPos = 0
    /\ evPc = "none"
    /\ evCause = "none"
    /\ evActs = 0

NextEvents == EvSpawn \/ EvReadEvent \/ EvSinkChange

SpecEvents == InitEvents /\ [][NextEvents]_vars

\* ------------------------------------------------------------------ claims
LowestPressed(keys, k) == keys[k] = 1 /\ \A j \in Keys : j < k => keys[j] = 0
CycleDone == pc \in {"click", "poll"} /\ snap.tag = "Keys"

\* C1: while the worker is alive the commands are executed one at a time in
\* exactly the order in which they were enqueued: the command being executed
\* has no unexecuted command enqueued before it, and the i-th queued command
\* has exactly the commands in front of it still to be executed (none is
\* reordered, duplicated or skipped).
C1_FifoOrder ==
    WorkerAlive =>
        /\ worker = "busy" => cur.ahead = 0
        /\ \A i \in 1..Len(chan) : chan[i].ahead = BusyCount + i - 1

C1_Witness ==
    /\ worker = "busy"
    /\ Len(chan) >= 2
    /\ \E i, j \in 1..Len(chan) : chan[i].from # chan[j].from

\* C2: at most one transport handle exists, it is held by the worker thread,
\* and only its holder is ever inside a device operation, so no two threads
\* operate on the device at the same time.
C2_SingleTransport ==
    /\ Cardinality(transport) <= 1
    /\ transport \subseteq {"worker"}
    /\ inDeviceOp \subseteq transport
    /\ Cardinality(inDeviceOp) <= 1

C2_Witness ==
    /\ inDeviceOp = {"worker"}
    /\ bg = "running"
    /\ pc = "click"
    /\ hsends > 0

\* C3: a snapshot with exactly one pressed key k that has a handler makes the
\* loop invoke on_click of handler k exactly once in that cycle and of no
\* other handler.
C3_SinglePress ==
    (CycleDone /\ Cardinality(Pressed(snap.keys)) = 1 /\ Pressed(snap.keys) \subseteq buttons) =>
        \A k \in Keys : cycleClicks[k] = IF snap.keys[k] = 1 THEN 1 ELSE 0

C3_Witness ==
    /\ pc = "poll"
    /\ snap.tag = "Keys"
    /\ \E k \in buttons : Pressed(snap.keys) = {k} /\ cycleClicks[k] = 1

\* C4: a snapshot with several pressed keys makes the loop invoke only the
\* handler of the lowest-index pressed key in that cycle.
C4_LowestIndexWins ==
    (CycleDone /\ Cardinality(Pressed(snap.keys)) >= 2) =>
        \A k \in Keys :
            cycleClicks[k] = IF LowestPressed(snap.keys, k) /\ k \in buttons THEN 1 ELSE 0

C4_Witness ==
    /\ pc = "poll"
    /\ snap.tag = "Keys"
    /\ Cardinality(Pressed(snap.keys)) >= 2
    /\ \E k \in buttons : LowestPressed(snap.keys, k) /\ cycleClicks[k] = 1

\* C5: a snapshot without a pressed key makes the loop invoke no handler and
\* go to the next poll directly, without sleeping.
C5_NoPressNoHandler ==
    (snap.tag = "Keys" /\ Pressed(snap.keys) = {}) =>
        /\ pc = "poll"
        /\ cycleClicks = NoClicks
        /\ slept = 0

C5_Witness ==
    /\ snap.tag = "Keys"
    /\ Pressed(snap.keys) = {}
    /\ pc = "poll"
    /\ prevSnap # AllReleased

\* C6: when the device has no new data the worker answers the read with None
\* and stays alive, and the loop then sleeps one polling interval and polls
\* again without invoking a handler in between.
C6_NoDataState ==
    /\ snap.tag = "NoData" =>
        /\ pc \in {"sleep", "poll"}
        /\ cycleClicks = NoClicks
        /\ slept = (IF pc = "poll" THEN POLLING_RATE ELSE 0)
    /\ pc = "sleep" => snap.tag = "NoData"
    /\ reply.tag = "None" => pc = "recv"

C6_NoDataStep ==
    (worker = "busy" /\ cur.kind = "ReadButtons" /\ worker' # "busy" /\ opResult' = "NoData") =>
        (worker' = "idle" /\ reply' = ReplyNone)

C6_NoDataSleepsOnce == [] C6_NoDataState /\ [][C6_NoDataStep]_vars

C6_Witness ==
    /\ snap.tag = "NoData"
    /\ pc = "poll"
    /\ slept = POLLING_RATE
    /\ worker = "idle"

\* C7 (as stated): the handler of key k gets exactly one on_click per
\* released-to-pressed transition of k between successive snapshots, and a key
\* still held in a later snapshot does not fire again.
C7_OncePerPress ==
    CycleDone =>
        \A k \in buttons :
            cycleClicks[k] = IF prevSnap[k] = 0 /\ snap.keys[k] = 1 THEN 1 ELSE 0

\* C7 (amended): as long as successive snapshots differ and hold at most one
\* pressed key each, handler k gets exactly one on_click per
\* released-to-pressed transition of k; a key still held in a later snapshot
\* fires again whenever it is the lowest-index pressed key of that snapshot.
C7_OncePerPressSingleKey ==
    CycleDone =>
        \A k \in buttons :
            /\ (/\ Cardinality(Pressed(prevSnap)) <= 1
                /\ Cardinality(Pressed(snap.keys)) <= 1
                /\ prevSnap # snap.keys)
               => cycleClicks[k] = (IF prevSnap[k] = 0 /\ snap.keys[k] = 1 THEN 1 ELSE 0)
            /\ (prevSnap[k] = 1 /\ LowestPressed(snap.keys, k)) => cycleClicks[k] = 1

C7_Witness ==
    /\ pc = "poll"
    /\ snap.tag = "Keys"
    /\ \E k \in buttons :
        /\ prevSnap = AllReleased
        /\ Pressed(snap.keys) = {k}
        /\ cycleClicks[k] = 1
        /\ phys[k] = 0

\* C8: get<T> returns the value of the latest insert<T>, a second insert<T>
\* replaces the first (one value per type), and get<U> of a type that was
\* never inserted returns absent.
C8_RegistryInsertGet ==
    /\ \A T \in Types : TypeMapGet(typemap, T) = LastInserted(T)
    /\ \A T \in Types : Cardinality({e \in typemap : e.key = T}) <= 1
    /\ tmGot.tag = "Got" => tmGot.res = tmGot.exp

C8_Witness ==
    /\ tmHist["A"] = <<1, 2>>
    /\ tmHist["B"] = <<>>
    /\ tmGot = [tag |-> "Got", ty |-> "A", res |-> 2, exp |-> 2]
    /\ TypeMapGet(typemap, "B") = Absent

\* C9: when two init calls run the lazy-singleton creation concurrently,
\* exactly one background session is spawned and, once both calls have
\* returned, the registry holds the handle of that one session.
C9_SingleSessionSpawned ==
    /\ Cardinality(Spawned) <= 1
    /\ (\A t \in Tasks : npc[t] = "done") => Spawned = {TypeMapGet(typemap, "OBSClient")}

\* C10: a failed connect is followed by the backoff and a retry when a backoff
\* is configured; without one the session terminates after that one failed
\* attempt, and every request of any kind sent to it afterwards returns the
\* no-response error.
C10_FailedConnectNoResponse ==
    /\ \A s \in Sessions : sess[s] = "backoff" => (obsReconnect = "Some" /\ sfails[s] >= 1)
    /\ \A s \in Sessions : obsReconnect = "Some" => sess[s] # "terminated"
    /\ \A s \in Sessions :
        (obsReconnect = "None" /\ sfails[s] >= 1) => (sess[s] = "terminated" /\ sfails[s] = 1)
    /\ (cpc = "done" /\ cAfterTerm) => cres = "NoResponse"

\* C11: a caller whose request carries a one-shot reply channel and whose
\* session terminates before replying (the request was still queued, or it is
\* sent after the termination) never waits forever: its reply channel is
\* closed as soon as it waits on the terminated session, and it eventually
\* returns the no-response error.
C11_WaitsOnTerminated == cpc = "await" /\ sess[cclient] = "terminated"
C11_Unanswered ==
    /\ cpc \in {"send", "await"}
    /\ CarriesReply(ckind)
    /\ sess[cclient] = "terminated"
C11_NoResponseNotHang ==
    /\ [](C11_WaitsOnTerminated => oneshot = "dropped")
    /\ [](cpc = "done" /\ CarriesReply(ckind) /\ sess[cclient] = "terminated"
            => cres = "NoResponse")
    /\ (C11_Unanswered ~> (cpc = "done" /\ cres = "NoResponse"))

C11_Witness ==
    /\ cpc = "done"
    /\ cres = "NoResponse"
    /\ CarriesReply(ckind)
    /\ sess[cclient] = "terminated"
    /\ ~cAfterTerm

PollPhase == {"poll", "recv", "sleep", "click", "panicked"}

\* C12: after a successful connect and before the first key poll, init is
\* invoked exactly once on every registered handler, in increasing KeyIndex
\* order, each with the key handle of its own index.
C12_InitState ==
    /\ pc \in {"connect", "exited"} => inited = {}
    /\ pc \in PollPhase => inited = buttons
    /\ pc = "initBody" => curKey \in inited

C12_InitStep ==
    (pc = "init" /\ pc' = "initBody") =>
        /\ curKey' \in buttons \ inited
        /\ inited' = inited \cup {curKey'}
        /\ \A j \in buttons \ inited : curKey' <= j

C12_KeyHandleStep ==
    (pc = "initBody" /\ Len(chan') > Len(chan) /\ chan'[Len(chan')].from = "main") =>
        chan'[Len(chan')].key = curKey

C12_InitInKeyOrder == [] C12_InitState /\ [][C12_InitStep /\ C12_KeyHandleStep]_vars

\* C13: an error returned by a handler never stops the dispatch loop. The
\* return of init, with Ok or Err alike, puts the loop back at the head of the
\* init phase with the set of initialised handlers untouched, so init is still
\* invoked on every remaining handler and the poll phase is entered only when
\* all were initialised; the return of on_click, with Ok or Err alike, puts the
\* loop at its next poll, which it can send. Nothing else changes at a return,
\* and the loop only ever ends by the fatal connect failure or after the
\* worker died.
C13_ReturnStep ==
    (pc \in {"initBody", "click"} /\ pc' # pc) =>
        /\ hres' \in {"Ok", "Err"}
        /\ pc' = (IF pc = "initBody" THEN "init" ELSE "poll")
        /\ UNCHANGED <<inited, buttons, cycleVars, sendVars, workerVars,
                       reply, devVars, bg>>

C13_AfterError ==
    /\ hres = "Err" => pc \in {"init", "poll"}
    /\ (hres = "Err" /\ pc = "init") => ENABLED (InitNext \/ InitDone)
    /\ (hres = "Err" /\ pc = "poll" /\ Len(chan) < MaxQueue) => ENABLED Poll
    /\ pc \in PollPhase => inited = buttons
    /\ pc = "exited" => (hres = "none" /\ inited = {})
    /\ pc = "panicked" => worker = "dead"

C13_HandlerErrorContinues == [] C13_AfterError /\ [][C13_ReturnStep]_vars

C13_Witness ==
    /\ pc = "poll"
    /\ hres = "Err"
    /\ inited = buttons
    /\ \E k \in buttons : cycleClicks[k] = 1
    /\ WorkerAlive
    /\ ENABLED Poll

\* C14: at most one handler invocation (init or on_click) is in progress at
\* any time. An invocation starts only from the loop itself (the init iteration
\* or the dispatch of a snapshot), never while another is in progress; while
\* one is in progress the loop has no read_keys request outstanding, and it
\* sends the next one only after the invocation returned. Handlers overlap
\* only with the worker and the background event thread.
HandlerInProgress == pc \in {"initBody", "click"}
ReadOutstanding ==
    \/ reply.tag # "Idle"
    \/ cur.kind = "ReadButtons"
    \/ \E i \in 1..Len(chan) : chan[i].kind = "ReadButtons"

C14_HandlerState ==
    /\ HandlerInProgress => ~ReadOutstanding
    /\ HandlerInProgress => (curKey \in buttons /\ curKey \in inited)
    /\ ReadOutstanding => pc \in {"recv", "panicked"}

C14_HandlerStep ==
    /\ (pc' \in {"initBody", "click"} /\ (pc' # pc \/ curKey' # curKey \/ hsends' < hsends))
            => pc \in {"init", "recv"}
    /\ (~ReadOutstanding /\ ReadOutstanding') => (pc = "poll" /\ pc' = "recv")
    /\ (HandlerInProgress /\ Len(chan') > Len(chan)) =>
            (chan'[Len(chan')].kind # "ReadButtons" /\
             (chan'[Len(chan')].from = "main" => chan'[Len(chan')].key = curKey))

C14_OneHandlerAtATime == [] C14_HandlerState /\ [][C14_HandlerStep]_vars

C14_Witness ==
    /\ pc = "click"
    /\ hsends > 0
    /\ bg = "running"
    /\ worker = "busy"
    /\ cur.from = "bg"
    /\ \E i \in 1..Len(chan) : chan[i].from = "main" /\ chan[i].key = curKey

\* the loop can take its next step, or it waits for the live worker, which can
\* take its own next step
LoopCanStep == ENABLED LoopStep \/ (WorkerAlive /\ ENABLED WorkerStep)
Connected == pc \notin {"connect", "exited"}

C15_LoopState ==
    /\ (Connected /\ pc # "panicked") => LoopCanStep
    /\ pc = "panicked" =>
            (worker = "dead" /\ opResult \in {"Err", "Rejected"} /\ reply.tag = "Dropped")
    /\ pc = "exited" => (connErr # "none" /\ worker = "none")
\* the two steps that end the loop: the failed connect, taken from the start,
\* and the failed wait for the reply of a read that the dead worker dropped
C15_EndStep ==
    (pc' \in {"exited", "panicked"} /\ pc' # pc) =>
        \/ pc = "connect" /\ pc' = "exited" /\ connErr' # "none"
        \/ pc = "recv" /\ pc' = "panicked" /\ worker = "dead" /\ reply.tag = "Dropped"
C16_FailedConnectExits ==
    /\ pc = "exited" =>
        /\ connErr \in {"connect", "set_blocking"}
        /\ worker = "none" /\ transport = {} /\ cur = NoMsg /\ opResult = "none"
        /\ inited = {} /\ curKey = NoKey /\ hres = "none" /\ bg = "none"
        /\ chan = <<>> /\ reply = ReplyIdle
        /\ snap = SnapPending /\ prevSnap = AllReleased /\ cycleClicks = NoClicks
    /\ connErr # "none" => pc = "exited"
    /\ worker # "none" => Connected

C16_Witness ==
    /\ pc = "exited"
    /\ connErr = "set_blocking"
    /\ worker = "none"
    /\ Cardinality(buttons) = NumKeys

\* number of loop steps left, at most, before a loop without a worker panics
\* on a closed reply channel; an answer sent before the worker died is still
\* read and dispatched first
StepsToPanic ==
    CASE pc = "recv" /\ reply.tag = "Dropped" -> 1
      [] pc = "poll" -> 2
      [] pc \in {"sleep", "click"} -> 3
      [] pc = "recv" -> 4
      [] pc = "init" -> 4 + 2 * Cardinality(buttons \ inited)
      [] pc = "initBody" -> 5 + 2 * Cardinality(buttons \ inited)
      [] OTHER -> 0

\* C17: when the worker hits a hardware error other than 'no data available',
\* on a read or on a set_color/set_image, it stops, and the process terminates
\* instead of hanging: a loop that waits for a read_keys reply always has a
\* live worker holding the request or finds the reply channel closed; once the
\* worker is dead the loop always has a next step, each of its steps brings it
\* closer to the read of a closed reply channel, and that read can only panic.
C17_DeadWorkerState ==
    /\ worker = "dead" =>
        /\ opResult \in {"Err", "Rejected"}
        /\ transport = {} /\ chan = <<>> /\ cur = NoMsg
        /\ reply.tag # "Pending"
    /\ (worker = "dead" /\ pc = "recv") => reply.tag \in {"Dropped", "Some", "None"}
    /\ reply.tag = "Pending" =>
        /\ WorkerAlive
        /\ \/ cur.kind = "ReadButtons"
           \/ \E i \in 1..Len(chan) : chan[i].kind = "ReadButtons"
    /\ (worker = "dead" /\ Connected /\ pc # "panicked") => ENABLED LoopStep
    /\ pc = "panicked" => worker = "dead"

C17_DeadWorkerStep ==
    /\ (worker = "busy" /\ worker' # "busy" /\ opResult' = "Err") => worker' = "dead"
    /\ worker = "dead" => worker' = "dead"
    /\ (worker = "dead" /\ <<pc, inited>>' # <<pc, inited>>) =>
        /\ StepsToPanic' < StepsToPanic
        /\ pc = "poll" => (pc' = "recv" /\ reply' = ReplyDropped)
        /\ (pc = "recv" /\ reply.tag = "Dropped") => pc' = "panicked"

C17_HardwareErrorTerminates == [] C17_DeadWorkerState /\ [][C17_DeadWorkerStep]_vars

C17_Witness ==
    /\ pc = "recv"
    /\ worker = "dead"
    /\ opResult = "Err"
    /\ reply.tag = "Dropped"
    /\ inited = buttons

\* C18: set_color and set_image are fire-and-forget: the enqueue completes
\* without any step of the worker, the sender can go on at once, and a device
\* write that fails inside the worker without a fatal hardware error is
\* swallowed: the worker stays alive and the commands queued after the failed
\* one are still there to be executed.
C18_EnqueueStep ==
    (Len(chan') > Len(chan)) =>
        /\ chan'[Len(chan')].kind \in {"SetColor", "SetImage"} =>
                UNCHANGED <<worker, cur, opResult, display, reply>>
        /\ HandlerInProgress => HandlerInProgress'

C18_WriteFailureStep ==
    (worker = "busy" /\ cur.kind \in {"SetColor", "SetImage"} /\ worker' # "busy"
        /\ opResult' = "Rejected") =>
        /\ worker' = "idle"
        /\ transport' = transport
        /\ chan' = OneExecuted(chan)

C18_SetFireAndForget ==
    /\ [](HandlerInProgress => ENABLED HandlerReturn)
    /\ [][C18_EnqueueStep /\ C18_WriteFailureStep]_vars

\* what the grammar of the event line means
KnownKinds == {"'new'", "'change'", "'remove'"}
KnownTypes == EntityTypes \ {"unknownthing"}
KindOf(k) ==
    CASE k = "'new'" -> "New" [] k = "'change'" -> "Change" [] k = "'remove'" -> "Remove"
      [] OTHER -> "None"
TypeOf(t) ==
    CASE t = "sink" -> "Sink" [] t = "source" -> "Source" [] t = "card" -> "Card"
      [] t = "source-output" -> "SourceOutput" [] t = "client" -> "Client"
      [] t = "sink-input" -> "SinkInput" [] OTHER -> "None"

\* C19: the event decoder maps the line `Event '<kind>' on <type> #<id>` to
\* (kind, type(id)) for every kind in {new, change, remove} and every known
\* entity type; a line with an unrecognized kind and a line with an
\* unrecognized entity type each yield the decode error value.
C19_EventDecoded ==
    (decIn.tag = "event" /\ decOut.tag # "none") =>
        IF decIn.kind \in KnownKinds /\ decIn.ty \in KnownTypes
        THEN decOut = OutOk(KindOf(decIn.kind), [ty |-> TypeOf(decIn.ty), id |-> decIn.id])
        ELSE decOut = OutErr

\* what a block of the listing means: the record of its id with the value of
\* every recognized key in the field of that key, the last line of a key
\* winning; any other key changes nothing
StateOf(v) ==
    CASE v = "IDLE" -> "Idle" [] v = "RUNNING" -> "Running" [] v = "SUSPENDED" -> "Suspended"
      [] OTHER -> "None"
RecordWith(rec, a) ==
    CASE a.key = "State" -> [rec EXCEPT !.state = StateOf(a.value)]
      [] a.key = "Mute" -> [rec EXCEPT !.mute = (a.value = "yes")]
      [] a.key = "Driver" -> [rec EXCEPT !.driver = Bytes(a.value)]
      [] a.key = "Sample Specification" -> [rec EXCEPT !.sample_specification = Bytes(a.value)]
      [] OTHER -> rec
RECURSIVE RecordFrom(_, _)
RecordFrom(rec, attrs) ==
    IF attrs = <<>> THEN rec ELSE RecordFrom(RecordWith(rec, Head(attrs)), Tail(attrs))
RecordOf(b) == RecordFrom([SinkDefault EXCEPT !.id = b.id], b.attrs)
ValuesDecodable(blocks) ==
    \A i \in 1..Len(blocks) : \A j \in 1..Len(blocks[i].attrs) :
        blocks[i].attrs[j].key = "State" => StateOf(blocks[i].attrs[j].value) # "None"

\* C20: the list decoder turns every block `Sink #<id>` followed by
\* tab-indented `Key: Value` lines into one record that carries the id and,
\* in the field of each recognized key, the value of that key; a line with an
\* unrecognized key leaves the record unchanged and is not an error.
C20_ListBlockDecoded ==
    (decIn.tag = "list" /\ decOut.tag # "none" /\ ValuesDecodable(decIn.blocks)) =>
        /\ decOut.tag = "Ok"
        /\ Len(decOut.sinks) = Len(decIn.blocks)
        /\ \A i \in 1..Len(decIn.blocks) : decOut.sinks[i] = RecordOf(decIn.blocks[i])

C22_ReconnectAfterBreak ==
    \A s \in Sessions :
        (sess[s] = "connected" /\ sconn[s] = "broken") ~> (sess[s] = "connecting")

\* C23: a line of the event stream that carries an unrecognized kind or an
\* unrecognized entity type is skipped: the event reader stays alive (no line
\* ends it) and it goes on to decode and act on the lines that follow, so once
\* it has read every line it has acted on each change of a sink among them.
SinkChangesRead ==
    Cardinality({i \in 1..evPos :
        evLines[i].kind = "'change'" /\ evLines[i].ty = "sink"})
C23_UnrecognizedSkipped ==
    /\ evCause # "read_event"
    /\ (evPc = "read" /\ evCause = "none") => evActs = SinkChangesRead
    /\ (evPc = "body" /\ evCause = "none") => evActs + 1 = SinkChangesRead

\* C24: the blocking read of an event line runs on its own thread and not in
\* the task of the dispatch loop: while the event reader is blocked waiting
\* for the next line, handler init can return and the dispatch loop can take
\* its next step (poll the keys, dispatch a press), whatever the reader does.
C24_LoopFree ==
    bg = "running" =>
        /\ pc = "initBody" => ENABLED HandlerReturn
        /\ (Connected /\ pc # "panicked" /\ WorkerAlive) => LoopCanStep
\* spawning the reader leaves the loop inside init, a step of the loop leaves
\* the reader running, and a command the reader enqueues leaves the loop
\* where it is
C24_ReaderStep ==
    /\ (bg = "none" /\ bg' = "running") => (pc = "initBody" /\ UNCHANGED mainVars)
    /\ (bg = "running" /\ pc' # pc) => bg' = "running"
    /\ (Len(chan') > Len(chan) /\ chan'[Len(chan')].from = "bg") =>
            (bg = "running" /\ UNCHANGED mainVars)
C24_ReaderOffLoop == [] C24_LoopFree /\ [][C24_ReaderStep]_vars

\* the reader has been blocked since it was spawned (no command of it was
\* queued, executed or lost) and the loop is dispatching a press
C24_Witness ==
    /\ bg = "running"
    /\ pc = "click"
    /\ curKey \in buttons
    /\ WorkerAlive
    /\ worker = "idle"
    /\ chan = <<>>
    /\ display = [k \in Keys |-> "blank"]

\* C25: lazy singleton creation is idempotent when the creation calls run one
\* after the other: the first call spawns one background session and stores
\* its handle; every later call finds the type present, spawns nothing and
\* leaves the stored handle unchanged, so the handle persists and every
\* handler obtains a sender to that same session.
C25_Sequential == ~overlap
C25_SingletonState ==
    C25_Sequential =>
        /\ Cardinality(Spawned) <= 1
        /\ Spawned # {} => Spawned = {TypeMapGet(typemap, "OBSClient")}
        /\ \A t \in Tasks : npc[t] = "done" => Cardinality(Spawned) = 1
        /\ cpc \in {"send", "await", "done"} => Spawned = {cclient}
C25_SingletonStep ==
    (C25_Sequential' /\ TypeMapContainsKey(typemap, "OBSClient")) =>
        /\ typemap' = typemap
        /\ Spawned' = Spawned
        /\ \A t \in Tasks : npc'[t] \notin {"absent", "locked"}
C25_SequentialSingleton == [] C25_SingletonState /\ [][C25_SingletonStep]_vars

C25_Witness ==
    /\ C25_Sequential
    /\ \A t \in Tasks : npc[t] = "done"
    /\ tmHist["OBSClient"] = <<1>>
    /\ Spawned = {1}
    /\ cpc = "await"
    /\ cclient = 1

\* C26: a handler body that takes a read lock on the handler table during its
\* init or on_click acquires the lock and completes: it is never left waiting
\* for the lock and never fails on it, because the dispatch loop does not hold
\* the handler-table lock in a way that blocks the handler it is running.
C26_LookupCompletes ==
    pc \notin {"lockwait", "handlerPanicked"}

ReadsInFlight ==
    Cardinality({i \in 1..Len(chan) : chan[i].kind = "ReadButtons"})
        + (IF worker = "busy" /\ cur.kind = "ReadButtons" THEN 1 ELSE 0)
RepliesReady == IF reply.tag \in {"Some", "None"} THEN 1 ELSE 0
SetOfLoopPending ==
    \/ \E i \in 1..Len(chan) : chan[i].from = "main" /\ chan[i].kind # "ReadButtons"
    \/ worker = "busy" /\ cur.from = "main" /\ cur.kind # "ReadButtons"

\* C28 (as stated): each read_keys request receives exactly one reply from the
\* worker: while the dispatch loop waits in read_keys its request is queued,
\* being executed, or answered by one reply.
C28_EveryReadAnswered ==
    /\ ReadsInFlight <= 1
    /\ pc = "recv" => ReadsInFlight + RepliesReady = 1

\* C28 (amended): while the worker is alive each read_keys request receives
\* exactly one reply, the dispatch loop has at most one read_keys request
\* outstanding, and the reply is produced only when no command enqueued before
\* the request is left unexecuted, so at the return of read_keys every
\* set_color/set_image enqueued before it has been executed on the device; a
\* request outstanding when the worker dies gets no reply (its reply channel
\* is closed).
C28_ReadState ==
    /\ ReadsInFlight <= 1
    /\ WorkerAlive =>
        /\ pc = "recv" => ReadsInFlight + RepliesReady = 1
        /\ pc # "recv" => (ReadsInFlight = 0 /\ reply.tag = "Idle")
    /\ ~WorkerAlive => (ReadsInFlight = 0 /\ reply.tag # "Pending")
    /\ RepliesReady = 1 => ~SetOfLoopPending
C28_ReadStep ==
    /\ (reply.tag = "Pending" /\ reply'.tag \in {"Some", "None"}) =>
            (cur.kind = "ReadButtons" /\ cur.ahead = 0)
    /\ RepliesReady = 1 =>
            (reply' = reply \/ (reply' = ReplyIdle /\ pc = "recv" /\ pc' # "recv"))
C28_ReadRoundTrip == [] C28_ReadState /\ [][C28_ReadStep]_vars

\* a reply waits for the loop, a set command of the last handler has been
\* executed, and a command enqueued after the request is still queued
C28_Witness ==
    /\ pc = "recv"
    /\ reply.tag = "Some"
    /\ WorkerAlive
    /\ \E k \in buttons : display[k] # "blank"
    /\ chan # <<>>

\* C29: set_color and set_image never block the caller and never return an
\* error, also after the worker has terminated and the channel no longer
\* accepts messages: the command is then discarded, it changes nothing on the
\* device, and the caller still receives success.
C29_SendState ==
    /\ sent # NoSend => sent.res = "Ok"
    /\ bg # "dead"
    /\ (HandlerInProgress /\ hsends < MaxHandlerSends /\ Len(chan) < MaxQueue)
            => ENABLED HandlerSend
    /\ (bg = "running" /\ Len(chan) < MaxQueue) => ENABLED BgSend
C29_SendStep ==
    (hsends' = hsends + 1) =>
        /\ pc' = pc
        /\ sent'.accepted = WorkerAlive
        /\ ~WorkerAlive => UNCHANGED <<chan, worker, cur, transport, display>>
C29_SetNeverFails == [] C29_SendState /\ [][C29_SendStep]_vars

C29_Witness ==
    /\ worker = "dead"
    /\ pc = "click"
    /\ sent = [res |-> "Ok", accepted |-> FALSE]
    /\ chan = <<>>
    /\ ENABLED HandlerReturn

\* C30: converting a packed 32-bit integer to a Color decodes three 8-bit
\* channels from three different bytes of the input: two inputs that differ in
\* the byte holding green (the second) or the byte holding blue (the third)
\* yield different Colors.
C30_ChannelsFromDistinctBytes ==
    (colIn.tag = "u32" /\ Len(colOut) = 2) =>
        /\ \A i \in 1..2 : colOut[i].r \in U8 /\ colOut[i].g \in U8 /\ colOut[i].b \in U8
        /\ (\/ colIn.vals[1][2] # colIn.vals[2][2]
            \/ colIn.vals[1][3] # colIn.vals[2][3]) => colOut[1] # colOut[2]

TypeOK ==
    /\ pc \in {"connect", "exited", "init", "initBody", "poll", "recv", "sleep", "click",
              "panicked", "lockwait", "handlerPanicked"}
    /\ bg \in {"none", "running"}
    /\ evPc \in {"none", "read", "body", "dead"}
    /\ evPos \in 0..Len(evLines)
    /\ \A i \in 1..Len(colOut) : colOut[i] \in [r : U8, g : U8, b : U8]
    /\ \A s \in Sessions : sconn[s] \in {"none", "up", "broken"}
    /\ Len(chan) <= MaxQueue
    /\ inited \subseteq buttons
====
